---- MODULE Spec2Model ----
(***************************************************************************)
(* Frame scheduler, frame resource ring, swapchain manager and job graph   *)
(* builder of Qt3DRaytrace::Vulkan::Renderer                               *)
(* (src/src/raytrace/renderers/vulkan/renderer.cpp).                       *)
(*                                                                         *)
(* renderFrame is split at its blocking points (device idle wait, fence    *)
(* wait, timestamp query wait); everything between two blocking points is  *)
(* one action.  The GPU queue, the window and the job executor are the     *)
(* environment.  Device calls whose bodies live outside renderer.cpp       *)
(* (Device::waitForFence, createSwapchain, ...) are modelled by their      *)
(* outcomes; which outcomes may fail is the parameter F of each action.    *)
(***************************************************************************)
EXTENDS Integers, Sequences, FiniteSets, TLC

\* Largest ring size (VkSurfaceCapabilitiesKHR::minImageCount) explored.
MaxFrames == 2

\* How many submissions beyond the ring size may pile up once a failed
\* fence wait is ignored.
MaxOverrun == 1

VARIABLES
    numConcurrentFrames,          \* m_frameResources.size()
    m_window,                     \* window surface set
    surfaceSize,                  \* size the window reports now
    m_swapchain,                  \* swapchain handle is non-null
    m_swapchainSize,
    m_renderBufferSize,
    m_lastSwapchainImage,         \* non-null
    m_renderBuffersReady,
    m_clearPreviousRenderBuffer,
    m_lastRenderBuffer,           \* slot index or NoSlot
    m_frameIndex,
    fences,                       \* slot -> commandBuffersExecutedFence signaled
    gpuQueue,                     \* submissions not yet executed, in order
    queries,                      \* slot -> timestamp query pair of the slot
    presentationFinished,         \* m_presentationFinishedSemaphore has a signal
    renderables,                  \* m_sceneManager->renderables().size()
    tlasValid,                    \* scene TLAS has been built
    tlasJobPending,               \* a returned TLAS job has not run yet
    pc,                           \* where renderFrame is
    rf,                           \* renderFrame's locals and what the frame did
    cleared,                      \* slots whose target was cleared since the last reset
    historyInvalid,               \* a reset happened and no trace was recorded since
    emptyObserved,                \* an empty size was observed and not yet replaced
    m_dirtySet,
    renderParametersDeps,         \* dependencies of m_updateRenderParametersJob
    instanceBufferDeps,           \* dependencies of m_updateInstanceBufferJob
    emittersDeps,                 \* dependencies of m_updateEmittersJob
    jpc,                          \* where jobsToExecute is
    jl,                           \* jobsToExecute's locals
    jret,                         \* what jobsToExecute returns
    traceSubmitted,               \* a submitted frame traced into the current render targets
    displaySubmitted,             \* a submitted frame drew into an image of the current swapchain
    outOfDate,                    \* the swapchain was reported out of date and not replaced since
    grab,                         \* what the last grabImage call did
    setSurf,                      \* where setSurface is, and what it was given
    m_renderFrameTimer,           \* the timer that calls renderFrame is active
    initialized,                  \* what initialize() returned and the handles left null
    m_hostTimeAverage,            \* the samples of the CPU frame time average
    m_deviceTimeAverage,          \* the samples of the GPU frame time average
    stats                         \* the statistics() call and the writes that raced with it

deviceVars == <<numConcurrentFrames, m_renderFrameTimer, initialized>>
timingVars == <<m_hostTimeAverage, m_deviceTimeAverage>>
surfVars  == <<m_window, surfaceSize, setSurf>>
swapVars  == <<m_swapchain, m_swapchainSize, m_renderBufferSize, m_lastSwapchainImage,
               emptyObserved, displaySubmitted, outOfDate>>
accVars   == <<m_renderBuffersReady, m_clearPreviousRenderBuffer, m_lastRenderBuffer,
               cleared, historyInvalid, traceSubmitted>>
ringVars  == <<m_frameIndex, fences, gpuQueue, queries, presentationFinished>>
sceneVars == <<renderables, tlasValid, tlasJobPending>>
frameVars == <<pc, rf>>
depVars   == <<renderParametersDeps, instanceBufferDeps, emittersDeps>>
jobVars   == <<m_dirtySet, depVars, jpc, jl, jret>>
vars == <<deviceVars, timingVars, surfVars, swapVars, accVars, ringVars, sceneVars, frameVars,
          jobVars, grab, stats>>

----------------------------------------------------------------------------
(* QSize *)

InvalidSize == <<-1, -1>>

isNull(s) == s[1] = 0 /\ s[2] = 0

isValid(s) == s[1] >= 0 /\ s[2] >= 0

isEmpty(s) == s[1] <= 0 \/ s[2] <= 0

\* Sizes the window can report: minimized, zero height, two proper sizes.
SurfaceSizes == {<<0, 0>>, <<1, 0>>, <<1, 1>>, <<2, 1>>}

----------------------------------------------------------------------------
(* Device outcomes *)

Faults == {"querySize", "createSwapchain", "swapchainImages", "createImage",
           "waitFence", "acquire", "submit", "outOfDate", "queryTime", "time"}

\* The results a fallible device call may return under the failures F.
Outcome(F, f) == IF f \in F THEN {TRUE, FALSE} ELSE {TRUE}

\* The results of vkAcquireNextImageKHR and vkQueuePresentKHR under F.
SwapchainResults(F) ==
    {"ok"} \cup (IF "acquire" \in F THEN {"failed"} ELSE {})
           \cup (IF "outOfDate" \in F THEN {"outOfDate", "suboptimal"} ELSE {})

----------------------------------------------------------------------------
(* Frame timings *)

\* The window of the two frame time averages, in samples.
AverageWindow == 1

\* The longest frame time, in milliseconds.
MaxMillis == 2

\* The CPU times frameTimer.nsecsElapsed() can report: every frame takes one
\* millisecond unless frame times vary under F.
HostTimes(F) == IF "time" \in F THEN 0 .. MaxMillis ELSE {1}

\* The values previousDeviceTime can have after queryTimeElapsed (lines
\* 732-733): the elapsed time between the two timestamps of the pair, or the
\* -1 it was initialized with when the call fails.
DeviceTimes(F) ==
    (IF "time" \in F THEN 0 .. MaxMillis ELSE {1})
    \cup (IF "queryTime" \in F THEN {-1} ELSE {})

\* The samples of a rolling average after add(sample).
add(average, sample) ==
    IF Len(average) < AverageWindow THEN Append(average, sample)
    ELSE Tail(average) \o <<sample>>

\* Lines 865-872: the averages after updateFrameTimings(cpuFrameTime, gpuFrameTime).
updateFrameTimings(cpuFrameTime, gpuFrameTime) ==
    [host |-> add(m_hostTimeAverage, cpuFrameTime),
     device |-> IF gpuFrameTime > 0 THEN add(m_deviceTimeAverage, gpuFrameTime)
                ELSE m_deviceTimeAverage]

----------------------------------------------------------------------------
(* Frame resource ring *)

Slots == 0 .. (numConcurrentFrames - 1)

NoSlot == -1

currentFrameIndex == m_frameIndex

\* previousFrameIndex without the wrap-around branch of line 942.
previousFrameIndex_NoWrap == m_frameIndex - 1

previousFrameIndex ==
    IF m_frameIndex > 0 THEN m_frameIndex - 1 ELSE numConcurrentFrames - 1

\* Slots with a submission the GPU has not finished.
InFlight == {gpuQueue[i].slot : i \in DOMAIN gpuQueue}

\* Which submitted frame a submission is, or wrote the values a query pair
\* holds: "newest" = the last submitted frame, "preceding" = the one submitted
\* before it, "older", or "none" for a pair never written.
Older(q) ==
    [q EXCEPT !.age = CASE q.age = "newest" -> "preceding"
                        [] q.age = "preceding" -> "older"
                        [] OTHER -> q.age]

isReadyToRender == renderables > 0 /\ tlasValid

\* No setSurface call is under way: m_windowSurfaceLock is not held for writing.
NoSetSurface == [pc |-> "idle", surfaceObject |-> "null", busy |-> FALSE]

\* The image indices of the swapchain: createSwapchain is asked for
\* numConcurrentFrames() images (line 524).
SwapchainImages == 0 .. (numConcurrentFrames - 1)

NoImage == -1

NoGrab == [type |-> "none", empty |-> TRUE, produced |-> FALSE]

\* The fields of the snapshot statistics() returns (lines 1000-1004).
StatFields == {"cpuFrameTime", "gpuFrameTime", "totalRenderTime", "numFramesRendered"}

\* A write to the members behind the given fields by a thread that does not
\* hold m_frameTimingsLock: it overlaps a statistics() call that is under way.
UnlockedWrite(fields) ==
    stats' = IF stats.locked THEN [stats EXCEPT !.raced = @ \cup fields] ELSE stats

NewFrame ==
    [cur |-> 0, prev |-> 0, observed |-> InvalidSize, waitOk |-> TRUE, ready |-> FALSE,
     trace |-> "none", acquire |-> "none", submit |-> "none", present |-> FALSE,
     readAge |-> "none", measured |-> FALSE, steps |-> <<>>, presentResult |-> "none",
     commands |-> <<>>, buffersReady |-> FALSE, clearFlag |-> FALSE, noSurface |-> FALSE,
     cpuFrameTime |-> 0, gpuFrameTime |-> 0, hostBefore |-> <<>>, deviceBefore |-> <<>>,
     resizeSteps |-> <<>>, resized |-> "none", busyAtRelease |-> FALSE,
     acquiredImage |-> NoImage, presentedImage |-> NoImage]

\* The steps of lines 635-726 with the image acquired after the submission and
\* the ring index rotated after the present.
FrameSteps_AcquireAfterSubmit(ready, tryAcquire, subOk) ==
    <<"ReclaimExpired", "CheckReady">>
    \o (IF ready THEN <<"RefreshBindings">> ELSE <<>>)
    \o <<"BeginRecording", "EndRecording", "Submit">>
    \o (IF tryAcquire THEN <<"AcquirePresentImage">> ELSE <<>>)
    \o (IF subOk /\ tryAcquire THEN <<"Present">> ELSE <<>>)
    \o (IF subOk THEN <<"AdvanceRing">> ELSE <<>>)

\* The steps of lines 635-726 without the descriptor writes of lines 638-649.
FrameSteps_NoRefresh(ready, tryAcquire, subOk) ==
    <<"ReclaimExpired", "CheckReady", "BeginRecording">>
    \o (IF tryAcquire THEN <<"AcquirePresentImage">> ELSE <<>>)
    \o <<"EndRecording", "Submit">>
    \o (IF subOk THEN <<"AdvanceRing">> ELSE <<>>)
    \o (IF subOk /\ tryAcquire THEN <<"Present">> ELSE <<>>)

\* The steps renderFrame takes in lines 635-726, in the order of the code:
\* updateRetiredResources (635), isReadyToRender (637), descriptor writes
\* (638-649), commandBuffer.begin (656), acquireNextSwapchainImage (701),
\* commandBuffer.end (717), vkQueueSubmit (600), m_frameIndex rotation (605),
\* presentSwapchainImage (721).
FrameSteps(ready, tryAcquire, subOk) ==
    <<"ReclaimExpired", "CheckReady">>
    \o (IF ready THEN <<"RefreshBindings">> ELSE <<>>)
    \o <<"BeginRecording">>
    \o (IF tryAcquire THEN <<"AcquirePresentImage">> ELSE <<>>)
    \o <<"EndRecording", "Submit">>
    \o (IF subOk THEN <<"AdvanceRing">> ELSE <<>>)
    \o (IF subOk /\ tryAcquire THEN <<"Present">> ELSE <<>>)

\* The commands of lines 656-717 with the trace recorded before the clear.
RecordedCommands_TraceBeforeClear(buffersReady, clearPrevious, ready, acquired) ==
    <<"begin", "resetQueryPool", "timestampBegin">>
    \o (IF ~buffersReady THEN <<"initLayouts">> ELSE <<>>)
    \o (IF ready THEN <<"traceRays">> ELSE <<>>)
    \o (IF clearPrevious THEN <<"clearPrevious">> ELSE <<>>)
    \o <<"currentToShaderRead">>
    \o (IF acquired THEN <<"displayPass">> ELSE <<>>)
    \o <<"currentToWritable", "timestampEnd", "end">>

\* The commands renderFrame records in lines 656-717, given
\* m_renderBuffersReady, m_clearPreviousRenderBuffer, readyToRender and the
\* outcome of acquireNextSwapchainImage.
RecordedCommands(buffersReady, clearPrevious, ready, acquired) ==
    <<"begin", "resetQueryPool", "timestampBegin">>
    \o (IF ~buffersReady THEN <<"initLayouts">> ELSE <<>>)
    \o (IF clearPrevious THEN <<"clearPrevious">> ELSE <<>>)
    \o (IF ready THEN <<"traceRays">> ELSE <<>>)
    \o <<"currentToShaderRead">>
    \o (IF acquired THEN <<"displayPass">> ELSE <<>>)
    \o <<"currentToWritable", "timestampEnd", "end">>

----------------------------------------------------------------------------
(* Swapchain manager *)

\* The fields resizeSwapchain leaves behind once the device is idle, for the
\* observed size sz and the outcomes of createSwapchain, vkGetSwapchainImagesKHR
\* and createImage.
resizeSwapchain(sz, scOk, imgOk, rbOk) ==
    LET hadSwapchain == m_swapchain
        \* releaseSwapchainResources
        size1 == IF hadSwapchain THEN InvalidSize ELSE m_swapchainSize
        last1 == IF hadSwapchain THEN FALSE ELSE m_lastSwapchainImage
        created == ~isNull(sz) /\ scOk
        \* createSwapchainResources
        size2 == IF created /\ imgOk THEN sz ELSE size1
        rebuild == created /\ size2 # m_renderBufferSize
    IN  [swapchain |-> IF isNull(sz) THEN FALSE ELSE (scOk \/ hadSwapchain),
         swapchainSize |-> size2,
         lastSwapchainImage |-> last1,
         \* releaseRenderBufferResources, createRenderBufferResources
         renderBufferSize |-> IF rebuild THEN (IF rbOk THEN size2 ELSE InvalidSize)
                              ELSE m_renderBufferSize,
         released |-> rebuild,
         created |-> created,
         reset |-> rebuild /\ rbOk,
         ok |-> created /\ imgOk /\ (rebuild => rbOk),
         steps |-> (IF hadSwapchain THEN <<"releaseSwapchainResources">> ELSE <<>>)
                   \o (IF isNull(sz) THEN <<"destroySwapchain">>
                       ELSE <<"createSwapchain">>
                            \o (IF scOk THEN <<"destroySwapchain", "createSwapchainResources">>
                                ELSE <<>>)
                            \o (IF rebuild THEN <<"releaseRenderBufferResources",
                                                  "createRenderBufferResources">>
                                ELSE <<>>)
                            \o (IF rebuild /\ rbOk THEN <<"resetRenderProgress">> ELSE <<>>))]

----------------------------------------------------------------------------
(* Job graph builder *)

DirtyFlags == {"Transform", "Geometry", "Entity", "Material", "Texture", "Light", "Camera"}

\* Most dirty geometry nodes, and most dirty texture images, whose handles
\* resolve in one pass.
MaxComponents == 1

\* Number of active materials (materialManager->activeHandles()).
MaxMaterials == 2

ActiveMaterials == 1 .. MaxMaterials

\* createMaterialJobs that looks at the dirty components only.
createMaterialJobs_DirtyOnly(forceAllDirty, dirtyMaterials) == dirtyMaterials

\* Lines 195-218: the handles createMaterialJobs hands to its one job, for the
\* dirty materials whose handle resolves.
createMaterialJobs(forceAllDirty, dirtyMaterials) ==
    IF forceAllDirty THEN ActiveMaterials ELSE dirtyMaterials

\* shouldUpdateTLAS that is set for dirty geometry only.
shouldUpdateTLAS_GeometryOnly(D) == "Geometry" \in D

\* Lines 1070-1099: the value of shouldUpdateTLAS once the flags D were read.
shouldUpdateTLAS(D) == "Entity" \in D \/ "Geometry" \in D \/ "Transform" \in D

\* Sizes of the renderable set gatherEntities can leave behind.
RenderableCounts == {0, 1}

\* The jobs the renderer owns for its whole life.
DestroyExpiredResourcesJob == <<"destroyExpiredResources", 0>>

UpdateWorldTransformJob == <<"updateWorldTransform", 0>>

UpdateRenderParametersJob == <<"updateRenderParameters", 0>>

UpdateInstanceBufferJob == <<"updateInstanceBuffer", 0>>

UpdateEmittersJob == <<"updateEmitters", 0>>

\* The jobs created anew in each pass.
BuildGeometryJobs(n) == {<<"buildGeometry", i>> : i \in 1 .. n}

UploadTextureJobs(n) == {<<"uploadTexture", i>> : i \in 1 .. n}

UpdateMaterialsJob == <<"updateMaterials", 0>>

BuildSceneTLASJob == <<"buildSceneTLAS", 0>>

\* A job of an earlier pass is gone by the next pass: a dependency on it is a
\* null weak pointer, which removeDependency(QAspectJobPtr()) drops.
PassJobKinds == {"buildGeometry", "uploadTexture", "updateMaterials", "buildSceneTLAS"}

removeDependency(deps) == {d \in deps : d # UpdateWorldTransformJob /\ d[1] \notin PassJobKinds}

\* addDependency that adds nothing.
addDependency_Dropped(deps, job) == deps

\* QAspectJob::addDependency as called in lines 1083-1085: the dependencies of
\* a job once the given job was added.
addDependency(deps, job) == deps \cup {job}

\* The jobs of a set as they are appended to a vector, in index order.
RECURSIVE AsSeq(_, _, _)
AsSeq(kind, i, n) == IF i > n THEN <<>> ELSE <<(<<kind, i>>)>> \o AsSeq(kind, i + 1, n)

NoLocals ==
    [jobs |-> <<>>, seen |-> {}, numGeometryJobs |-> 0, numTextureJobs |-> 0,
     materialJobs |-> "none", dirtyMaterialHandles |-> {},
     shouldUpdateRenderParameters |-> FALSE, shouldUpdateInstanceBuffer |-> FALSE,
     shouldUpdateEmitters |-> FALSE, shouldUpdateTLAS |-> FALSE,
     sceneEntitiesDirty |-> FALSE]

NoJobs ==
    [jobs |-> <<>>, deps |-> <<>>, materials |-> "none", dirtyMaterialHandles |-> {},
     dirty |-> {}, lost |-> {}]

\* The largest number of creation calls of one initialize() that fail.
MaxNullHandles == 1

\* The creation calls of createResources, in the order of lines 223-288.
CreationCalls == {"managerPools", "semaphores", "commandPool", "commandBuffers", "fences",
                  "descriptorPool", "queryPool", "samplers", "renderPass", "pipelines",
                  "descriptorSets"}

\* Lines 221-294: the return value of createResources when the creation calls
\* in 'failed' return a null handle or false.  Only the three
\* createDescriptorPool calls of the descriptor manager are tested.
createResources(failed) == "managerPools" \notin failed

----------------------------------------------------------------------------
\* The renderer after its constructor and the swapchain property query of
\* lines 105-112.
Constructed ==
    /\ numConcurrentFrames \in 1 .. MaxFrames
    /\ m_window = TRUE
    /\ surfaceSize \in SurfaceSizes
    /\ m_swapchain = FALSE
    /\ m_swapchainSize = InvalidSize
    /\ m_renderBufferSize = InvalidSize
    /\ m_lastSwapchainImage = FALSE
    /\ m_renderBuffersReady = FALSE
    /\ m_clearPreviousRenderBuffer = FALSE
    /\ m_lastRenderBuffer = NoSlot
    /\ m_frameIndex = 0
    /\ fences = [s \in Slots |-> TRUE]
    /\ gpuQueue = <<>>
    /\ queries = [s \in Slots |-> [state |-> "uninit", age |-> "none"]]
    /\ presentationFinished = FALSE
    /\ renderables = 0
    /\ tlasValid = FALSE
    /\ tlasJobPending = FALSE
    /\ pc = "idle"
    /\ rf = NewFrame
    /\ cleared = {}
    /\ historyInvalid = FALSE
    /\ emptyObserved = FALSE
    /\ m_dirtySet = {}
    /\ renderParametersDeps = {}
    /\ instanceBufferDeps = {}
    /\ emittersDeps = {}
    /\ jpc = "idle"
    /\ jl = NoLocals
    /\ jret = NoJobs
    /\ traceSubmitted = FALSE
    /\ displaySubmitted = FALSE
    /\ outOfDate = FALSE
    /\ grab = NoGrab
    /\ stats = [locked |-> FALSE, raced |-> {}]
    /\ setSurf = NoSetSurface
    /\ m_hostTimeAverage = <<>>
    /\ m_deviceTimeAverage = <<>>

\* The renderer after initialize() created every resource and started the timer.
Init ==
    /\ Constructed
    /\ m_renderFrameTimer = TRUE
    /\ initialized = [result |-> "true", nullHandles |-> {}]

----------------------------------------------------------------------------
(* initialize *)

\* Lines 67-125: the checks before createResources pass or one of them fails;
\* createResources runs with the creation calls in 'failed' failing; the timer
\* is started when it returned true.
initialize ==
    /\ initialized.result = "none"
    /\ \E pre \in BOOLEAN, failed \in SUBSET CreationCalls :
          /\ Cardinality(failed) <= MaxNullHandles
          /\ (~pre \/ ~m_window) => failed = {}
          /\ LET ok == m_window /\ pre /\ createResources(failed) IN
                /\ initialized' = [result |-> IF ok THEN "true" ELSE "false",
                                   nullHandles |-> failed]
                /\ m_renderFrameTimer' = ok
    /\ UNCHANGED <<numConcurrentFrames, timingVars, surfVars, swapVars, accVars, ringVars,
                   sceneVars, frameVars, jobVars, grab, stats>>

----------------------------------------------------------------------------
(* renderFrame *)

\* Lines 610-630 when no resize is needed: lock, window check, size query,
\* slot indices.
renderFrame_Begin(F) ==
    /\ pc = "idle"
    \* line 64: renderFrame is the slot of the timer's timeout signal
    /\ m_renderFrameTimer
    \* QReadLocker lock(&m_windowSurfaceLock)
    /\ setSurf.pc = "idle"
    /\ UNCHANGED <<deviceVars, timingVars, grab, stats, surfVars, accVars, ringVars, sceneVars, jobVars>>
    /\ UNCHANGED <<m_swapchain, m_swapchainSize, m_renderBufferSize, m_lastSwapchainImage,
                   displaySubmitted, outOfDate>>
    /\ IF ~m_window
       THEN /\ pc' = "idle"
            /\ rf' = [NewFrame EXCEPT !.noSurface = TRUE]
            /\ UNCHANGED emptyObserved
       ELSE \E ok \in Outcome(F, "querySize") :
              /\ emptyObserved' = IF ok /\ isEmpty(surfaceSize) THEN TRUE
                                  ELSE IF ok /\ surfaceSize = m_swapchainSize THEN FALSE
                                  ELSE emptyObserved
              /\ IF ok /\ surfaceSize # m_swapchainSize
                 THEN /\ pc' = "resize"
                      /\ rf' = [NewFrame EXCEPT !.observed = surfaceSize]
                 ELSE /\ pc' = "wait"
                      /\ rf' = [NewFrame EXCEPT !.cur = currentFrameIndex,
                                                !.prev = previousFrameIndex]

\* renderFrame_WaitIdle that does not wait.
renderFrame_WaitIdle_NoWait ==
    /\ pc = "resize"
    /\ pc' = "recreate"
    /\ rf' = [rf EXCEPT !.resizeSteps = <<"waitIdle">>]
    /\ UNCHANGED <<deviceVars, timingVars, grab, stats, surfVars, swapVars, accVars, ringVars,
                   sceneVars, jobVars>>

\* Line 518: waitIdle returns once the queue has run every submission.
renderFrame_WaitIdle ==
    /\ pc = "resize"
    /\ gpuQueue = <<>>
    /\ pc' = "recreate"
    /\ rf' = [rf EXCEPT !.resizeSteps = <<"waitIdle">>]
    /\ UNCHANGED <<deviceVars, timingVars, grab, stats, surfVars, swapVars, accVars, ringVars,
                   sceneVars, jobVars>>

\* Lines 520-542 and 625-630: the swapchain and the render buffers are
\* released and created again.
renderFrame_Resize(F) ==
    /\ pc = "recreate"
    /\ \E scOk \in Outcome(F, "createSwapchain"),
          imgOk \in Outcome(F, "swapchainImages"),
          rbOk \in Outcome(F, "createImage") :
          LET r == resizeSwapchain(rf.observed, scOk, imgOk, rbOk) IN
          /\ m_swapchain' = r.swapchain
          /\ m_swapchainSize' = r.swapchainSize
          /\ m_lastSwapchainImage' = r.lastSwapchainImage
          /\ m_renderBufferSize' = r.renderBufferSize
          /\ m_renderBuffersReady' = IF r.released THEN FALSE ELSE m_renderBuffersReady
          /\ m_lastRenderBuffer' = IF r.released THEN NoSlot ELSE m_lastRenderBuffer
          /\ m_clearPreviousRenderBuffer' = IF r.reset THEN TRUE ELSE m_clearPreviousRenderBuffer
          /\ cleared' = IF r.reset THEN {} ELSE cleared
          /\ historyInvalid' = IF r.reset THEN TRUE ELSE historyInvalid
          /\ traceSubmitted' = IF r.released THEN FALSE ELSE traceSubmitted
          \* createRenderBufferResources ends in resetRenderProgress
          /\ UnlockedWrite(IF r.reset THEN {"numFramesRendered", "totalRenderTime"} ELSE {})
          /\ displaySubmitted' = FALSE
          /\ outOfDate' = IF r.created \/ ~r.swapchain THEN FALSE ELSE outOfDate
          /\ emptyObserved' = IF ~isEmpty(rf.observed) /\ r.swapchainSize = rf.observed
                              THEN FALSE ELSE emptyObserved
          /\ rf' = [rf EXCEPT !.cur = currentFrameIndex, !.prev = previousFrameIndex,
                              !.resizeSteps = rf.resizeSteps \o r.steps,
                              !.resized = IF r.ok THEN "ok"
                                          ELSE IF isNull(rf.observed) THEN "tornDown"
                                          ELSE "failed",
                              !.busyAtRelease = (gpuQueue # <<>>)]
    /\ pc' = "wait"
    /\ UNCHANGED <<deviceVars, timingVars, grab, surfVars, ringVars, sceneVars, jobVars>>

\* Line 632: waitForFence returns once the fence is signaled, or gives up; its
\* result is not looked at.
renderFrame_WaitFence(F) ==
    /\ pc = "wait"
    /\ \E ok \in Outcome(F, "waitFence") :
          /\ IF ok THEN fences[rf.cur]
                   ELSE ~fences[rf.cur] /\ Len(gpuQueue) < numConcurrentFrames + MaxOverrun
          /\ rf' = [rf EXCEPT !.waitOk = ok, !.steps = <<"AcquireSlot">>]
    /\ pc' = "record"
    /\ UNCHANGED <<deviceVars, timingVars, grab, stats, surfVars, swapVars, accVars, ringVars, sceneVars, jobVars>>

\* Lines 583-608.
submitFrameCommands(ok) ==
    /\ gpuQueue' = IF ok
                   THEN Append([i \in DOMAIN gpuQueue |-> Older(gpuQueue[i])],
                               [slot |-> m_frameIndex, waitSem |-> isValid(m_swapchainSize),
                                age |-> "newest", started |-> FALSE])
                   ELSE gpuQueue
    /\ m_frameIndex' = IF ok THEN (m_frameIndex + 1) % numConcurrentFrames ELSE m_frameIndex

\* Lines 633-729: fence reset, bindings, recording, image acquire, submit, present.
renderFrame_Record(F) ==
    /\ pc = "record"
    /\ \E acq \in SwapchainResults(F), subOk \in Outcome(F, "submit"),
          pres \in SwapchainResults(F), image \in SwapchainImages :
          LET ready == isReadyToRender
              \* lines 545-555: VK_SUBOPTIMAL_KHR counts as acquired
              acqOk == acq \in {"ok", "suboptimal"}
              clearPrev == m_clearPreviousRenderBuffer
              tryAcquire == isValid(m_swapchainSize)
              acquired == tryAcquire /\ acqOk
              \* line 654: the index is 0 unless vkAcquireNextImageKHR wrote it
              swapchainImageIndex == IF acquired THEN image ELSE 0
              present == subOk /\ isValid(m_swapchainSize)
              cleared1 == IF clearPrev THEN cleared \cup {rf.prev} ELSE cleared
          IN
          /\ (~tryAcquire => acq = "ok") /\ (~present => pres = "ok")
          /\ (~acquired => image = 0)
          /\ outOfDate' = (outOfDate \/ (tryAcquire /\ acq = "outOfDate")
                                     \/ (present /\ pres = "outOfDate"))
          /\ fences' = [fences EXCEPT ![rf.cur] = FALSE]
          /\ m_renderBuffersReady' = TRUE
          /\ m_clearPreviousRenderBuffer' = FALSE
          /\ m_lastRenderBuffer' = IF ready THEN rf.cur ELSE m_lastRenderBuffer
          /\ m_lastSwapchainImage' = IF acquired THEN TRUE ELSE m_lastSwapchainImage
          /\ presentationFinished' = IF acquired THEN TRUE ELSE presentationFinished
          /\ submitFrameCommands(subOk)
          /\ queries' = IF subOk THEN [s \in Slots |-> Older(queries[s])] ELSE queries
          \* what was recorded runs on the GPU only if it was submitted
          /\ cleared' = IF ~subOk THEN cleared
                        ELSE IF ready THEN cleared1 \cup {rf.cur} ELSE cleared1
          /\ historyInvalid' = (historyInvalid /\ ~(subOk /\ ready))
          /\ traceSubmitted' = (traceSubmitted \/ (subOk /\ ready))
          \* beginRenderIteration: ++m_frameNumber
          /\ UnlockedWrite(IF ready THEN {"numFramesRendered"} ELSE {})
          /\ displaySubmitted' = (displaySubmitted \/ (subOk /\ acquired))
          /\ rf' = [rf EXCEPT
                      !.ready = ready,
                      !.trace = IF ~ready THEN "none"
                                ELSE IF ~historyInvalid THEN "later"
                                ELSE IF rf.prev \in cleared1 THEN "firstCleared"
                                ELSE "firstUncleared",
                      !.acquire = IF ~tryAcquire THEN "none" ELSE acq,
                      !.presentResult = IF present THEN pres ELSE "none",
                      !.buffersReady = m_renderBuffersReady,
                      !.clearFlag = clearPrev,
                      !.commands = RecordedCommands(m_renderBuffersReady, clearPrev, ready,
                                                    acquired),
                      !.submit = IF subOk THEN "ok" ELSE "failed",
                      !.present = present,
                      !.acquiredImage = IF acquired THEN image ELSE NoImage,
                      !.presentedImage = IF present THEN swapchainImageIndex ELSE NoImage,
                      !.steps = rf.steps \o FrameSteps(ready, tryAcquire, subOk)]
    /\ pc' = "measure"
    /\ UNCHANGED <<deviceVars, timingVars, grab, surfVars, sceneVars, jobVars>>
    /\ UNCHANGED <<m_swapchain, m_swapchainSize, m_renderBufferSize, emptyObserved>>

\* Lines 731-734: the query pair of the slot that was 'previous' when the frame
\* began is read with VK_QUERY_RESULT_WAIT_BIT: the call returns once the pair
\* is available, with the values it holds then.
renderFrame_Measure(F) ==
    /\ pc = "measure"
    \* updateFrameTimings takes m_frameTimingsLock for writing
    /\ ~stats.locked
    /\ queries[rf.prev].state # "reset"
    /\ \E cpu \in HostTimes(F), gpu \in DeviceTimes(F) :
          LET t == updateFrameTimings(cpu, gpu) IN
          /\ m_hostTimeAverage' = t.host
          /\ m_deviceTimeAverage' = t.device
          /\ rf' = [rf EXCEPT !.readAge = queries[rf.prev].age, !.measured = TRUE,
                              !.steps = rf.steps \o <<"MeasureTiming">>,
                              !.cpuFrameTime = cpu, !.gpuFrameTime = gpu,
                              !.hostBefore = m_hostTimeAverage,
                              !.deviceBefore = m_deviceTimeAverage]
    /\ pc' = "idle"
    /\ UNCHANGED <<deviceVars, grab, stats, surfVars, swapVars, accVars, ringVars, sceneVars, jobVars>>

----------------------------------------------------------------------------
(* jobsToExecute, markDirty *)

\* Lines 422-433.
resetRenderProgress ==
    /\ m_clearPreviousRenderBuffer' = TRUE
    /\ cleared' = {}
    /\ historyInvalid' = TRUE
    \* m_frameNumber = 0 and m_frameElapsedTimer.restart()
    /\ UnlockedWrite({"numFramesRendered", "totalRenderTime"})

\* Lines 974-978.
markDirty(changes) ==
    /\ jpc # "return"
    /\ \E c \in changes : m_dirtySet' = m_dirtySet \cup {c}
    /\ UNCHANGED <<deviceVars, timingVars, grab, stats, surfVars, swapVars, accVars, ringVars, sceneVars,
                   frameVars, depVars, jpc, jl, jret>>

\* jobsToExecute_Begin without the jobs.append of line 1064.
jobsToExecute_Begin_NoReclaim ==
    /\ jpc = "idle"
    /\ renderParametersDeps' = renderParametersDeps \ {UpdateWorldTransformJob}
    /\ instanceBufferDeps' = removeDependency(instanceBufferDeps)
    /\ emittersDeps' = removeDependency(emittersDeps)
    /\ jl' = NoLocals
    /\ IF m_dirtySet # {}
       THEN resetRenderProgress
       ELSE UNCHANGED <<m_clearPreviousRenderBuffer, cleared, historyInvalid, stats>>
    /\ jpc' = "flags"
    /\ UNCHANGED <<deviceVars, timingVars, grab, surfVars, swapVars, ringVars, sceneVars, frameVars,
                   m_renderBuffersReady, m_lastRenderBuffer, traceSubmitted, m_dirtySet, jret>>

\* Lines 1046-1068.
jobsToExecute_Begin ==
    /\ jpc = "idle"
    /\ renderParametersDeps' = renderParametersDeps \ {UpdateWorldTransformJob}
    /\ instanceBufferDeps' = removeDependency(instanceBufferDeps)
    /\ emittersDeps' = removeDependency(emittersDeps)
    /\ jl' = [NoLocals EXCEPT !.jobs = <<DestroyExpiredResourcesJob>>]
    /\ IF m_dirtySet # {}
       THEN resetRenderProgress
       ELSE UNCHANGED <<m_clearPreviousRenderBuffer, cleared, historyInvalid, stats>>
    /\ jpc' = "flags"
    /\ UNCHANGED <<deviceVars, timingVars, grab, surfVars, swapVars, ringVars, sceneVars, frameVars,
                   m_renderBuffersReady, m_lastRenderBuffer, traceSubmitted, m_dirtySet, jret>>

\* Lines 1070-1125: the flags are read and the update jobs of the pass created.
jobsToExecute_Flags ==
    /\ jpc = "flags"
    /\ \E ng \in 0 .. MaxComponents, nt \in 0 .. MaxComponents, dm \in SUBSET ActiveMaterials :
          LET D == m_dirtySet
              entities == ("Entity" \in D \/ "Geometry" \in D)
              transform == "Transform" \in D
              geometry == "Geometry" \in D
              texture == "Texture" \in D
              material == ("Material" \in D \/ "Texture" \in D)
              numG == IF geometry THEN ng ELSE 0
              numT == IF texture THEN nt ELSE 0
          IN
          /\ (~geometry => ng = 0) /\ (~texture => nt = 0) /\ (~material => dm = {})
          /\ jl' = [jobs |-> jl.jobs
                             \o (IF transform THEN <<UpdateWorldTransformJob>> ELSE <<>>)
                             \o AsSeq("buildGeometry", 1, numG)
                             \o AsSeq("uploadTexture", 1, numT)
                             \o (IF material THEN <<UpdateMaterialsJob>> ELSE <<>>),
                    seen |-> D,
                    numGeometryJobs |-> numG,
                    numTextureJobs |-> numT,
                    materialJobs |-> IF ~material THEN "none"
                                     ELSE IF texture THEN "all" ELSE "dirty",
                    dirtyMaterialHandles |-> IF material THEN createMaterialJobs(texture, dm)
                                             ELSE {},
                    shouldUpdateRenderParameters |-> (transform \/ "Camera" \in D),
                    shouldUpdateInstanceBuffer |-> (entities \/ transform \/ geometry \/ material),
                    shouldUpdateEmitters |-> (entities \/ "Light" \in D \/ transform \/ geometry
                                              \/ texture \/ material),
                    shouldUpdateTLAS |-> shouldUpdateTLAS(D),
                    sceneEntitiesDirty |-> (entities \/ "Light" \in D)]
          /\ renderParametersDeps' = IF transform
                                     THEN addDependency(renderParametersDeps,
                                                        UpdateWorldTransformJob)
                                     ELSE renderParametersDeps
          /\ instanceBufferDeps' = IF transform
                                   THEN addDependency(instanceBufferDeps,
                                                      UpdateWorldTransformJob)
                                   ELSE instanceBufferDeps
          /\ emittersDeps' = IF transform
                             THEN addDependency(emittersDeps, UpdateWorldTransformJob)
                             ELSE emittersDeps
    /\ jpc' = "reset"
    /\ UNCHANGED <<deviceVars, timingVars, grab, stats, surfVars, swapVars, accVars, ringVars, sceneVars,
                   frameVars, m_dirtySet, jret>>

\* PassDependencies with an emitter job that does not wait for the textures.
PassDependencies_EmittersWithoutTextures(geometryJobs, textureJobs, materialJobs) ==
    [materials |-> textureJobs,
     tlas |-> {UpdateWorldTransformJob} \cup geometryJobs,
     instances |-> geometryJobs \cup materialJobs,
     emitters |-> geometryJobs \cup materialJobs]

\* The dependencies added on the jobs of this pass: to the material job in
\* lines 1113-1117, to the TLAS job in lines 1142-1145, to the instance-buffer
\* job in lines 1149-1154 and to the emitter job in lines 1158-1166.
PassDependencies(geometryJobs, textureJobs, materialJobs) ==
    [materials |-> textureJobs,
     tlas |-> {UpdateWorldTransformJob} \cup geometryJobs,
     instances |-> geometryJobs \cup materialJobs,
     emitters |-> geometryJobs \cup materialJobs \cup textureJobs]

\* Lines 1127-1170: the DirtySet is reset, the entities gathered and the jobs
\* that need a renderable appended.
jobsToExecute_Finish ==
    /\ jpc = "reset"
    /\ m_dirtySet' = {}
    /\ \E n \in RenderableCounts :
          LET gathered == IF jl.sceneEntitiesDirty THEN n ELSE renderables
              some == gathered > 0
              geometryJobs == BuildGeometryJobs(jl.numGeometryJobs)
              textureJobs == UploadTextureJobs(jl.numTextureJobs)
              materialJobs == IF jl.materialJobs = "none" THEN {} ELSE {UpdateMaterialsJob}
              tlas == some /\ jl.shouldUpdateTLAS
              instances == some /\ jl.shouldUpdateInstanceBuffer
              emitters == some /\ jl.shouldUpdateEmitters
              added == PassDependencies(geometryJobs, textureJobs, materialJobs)
              ibDeps == IF instances THEN instanceBufferDeps \cup added.instances
                        ELSE instanceBufferDeps
              emDeps == IF emitters THEN emittersDeps \cup added.emitters
                        ELSE emittersDeps
              jobs == jl.jobs
                      \o (IF jl.shouldUpdateRenderParameters
                          THEN <<UpdateRenderParametersJob>> ELSE <<>>)
                      \o (IF tlas THEN <<BuildSceneTLASJob>> ELSE <<>>)
                      \o (IF instances THEN <<UpdateInstanceBufferJob>> ELSE <<>>)
                      \o (IF emitters THEN <<UpdateEmittersJob>> ELSE <<>>)
          IN
          /\ (~jl.sceneEntitiesDirty => n = renderables)
          /\ renderables' = gathered
          /\ instanceBufferDeps' = ibDeps
          /\ emittersDeps' = emDeps
          /\ tlasJobPending' = (tlasJobPending \/ tlas)
          /\ jret' = [jobs |-> jobs,
                      deps |-> [i \in DOMAIN jobs |->
                                  CASE jobs[i] = UpdateMaterialsJob -> added.materials
                                    [] jobs[i] = BuildSceneTLASJob -> added.tlas
                                    [] jobs[i] = UpdateRenderParametersJob -> renderParametersDeps
                                    [] jobs[i] = UpdateInstanceBufferJob -> ibDeps
                                    [] jobs[i] = UpdateEmittersJob -> emDeps
                                    [] OTHER -> {}],
                      materials |-> jl.materialJobs,
                      dirtyMaterialHandles |-> jl.dirtyMaterialHandles,
                      dirty |-> jl.seen,
                      lost |-> m_dirtySet \ jl.seen]
    /\ jpc' = "return"
    /\ jl' = NoLocals
    /\ UNCHANGED <<deviceVars, timingVars, grab, stats, surfVars, swapVars, accVars, ringVars, frameVars,
                   renderParametersDeps, tlasValid>>

\* The caller takes the returned jobs.
jobsToExecute_Return ==
    /\ jpc = "return"
    /\ jpc' = "idle"
    /\ jret' = NoJobs
    /\ UNCHANGED <<deviceVars, timingVars, grab, stats, surfVars, swapVars, accVars, ringVars, sceneVars,
                   frameVars, m_dirtySet, depVars, jl>>

\* The job executor runs the TLAS build of a pass.
ExecuteTLASJob ==
    /\ tlasJobPending
    /\ tlasJobPending' = FALSE
    /\ tlasValid' = TRUE
    /\ UNCHANGED <<deviceVars, timingVars, grab, stats, surfVars, swapVars, accVars, ringVars, renderables,
                   frameVars, jobVars>>

----------------------------------------------------------------------------
(* grabImage *)

GrabTypes == {"HDR", "FinalLDR"}

\* Lines 1178-1200: the empty result for a null image pointer, else the copy of
\* the image the pointer names (lines 874-933).
grabImage(type) ==
    /\ grab' = [type |-> type,
                empty |-> IF type = "HDR" THEN m_lastRenderBuffer = NoSlot
                          ELSE ~m_lastSwapchainImage,
                produced |-> IF type = "HDR" THEN traceSubmitted ELSE displaySubmitted]
    /\ UNCHANGED <<deviceVars, timingVars, stats, surfVars, swapVars, accVars, ringVars,
                   sceneVars, frameVars, jobVars>>

----------------------------------------------------------------------------
(* setSurface *)

\* What setSurface may be given: nullptr, a QWindow, an object that is no QWindow.
SurfaceObjects == {"null", "window", "other"}

\* setSurface_Lock without m_windowSurfaceLock: the call starts whatever
\* renderFrame is doing.
setSurface_Lock_NoLock ==
    /\ setSurf.pc = "idle"
    /\ \E obj \in SurfaceObjects :
          setSurf' = [pc |-> IF m_window THEN "waitIdle" ELSE "assign",
                      surfaceObject |-> obj, busy |-> FALSE]
    /\ UNCHANGED <<deviceVars, timingVars, grab, stats, m_window, surfaceSize, swapVars, accVars,
                   ringVars, sceneVars, frameVars, jobVars>>

\* Lines 953-955: the write lock is taken once no renderFrame holds the read
\* lock; m_window decides whether the surface is released first.
setSurface_Lock ==
    /\ setSurf.pc = "idle"
    /\ pc = "idle"
    /\ \E obj \in SurfaceObjects :
          setSurf' = [pc |-> IF m_window THEN "waitIdle" ELSE "assign",
                      surfaceObject |-> obj, busy |-> FALSE]
    /\ UNCHANGED <<deviceVars, timingVars, grab, stats, m_window, surfaceSize, swapVars, accVars,
                   ringVars, sceneVars, frameVars, jobVars>>

\* Line 413: releaseWindowSurface returns from waitIdle once the queue is empty.
setSurface_WaitIdle ==
    /\ setSurf.pc = "waitIdle"
    /\ gpuQueue = <<>>
    /\ setSurf' = [setSurf EXCEPT !.pc = "release"]
    /\ UNCHANGED <<deviceVars, timingVars, grab, stats, m_window, surfaceSize, swapVars, accVars,
                   ringVars, sceneVars, frameVars, jobVars>>

\* Lines 414-419: the swapchain attachments and the swapchain are destroyed
\* and m_window is cleared.
setSurface_Release ==
    /\ setSurf.pc = "release"
    /\ setSurf' = [setSurf EXCEPT !.pc = "assign", !.busy = (gpuQueue # <<>>)]
    /\ m_swapchain' = FALSE
    /\ m_swapchainSize' = IF m_swapchain THEN InvalidSize ELSE m_swapchainSize
    /\ m_lastSwapchainImage' = IF m_swapchain THEN FALSE ELSE m_lastSwapchainImage
    /\ displaySubmitted' = IF m_swapchain THEN FALSE ELSE displaySubmitted
    /\ outOfDate' = FALSE
    /\ m_window' = FALSE
    /\ UNCHANGED <<deviceVars, timingVars, grab, stats, surfaceSize, m_renderBufferSize,
                   emptyObserved, accVars, ringVars, sceneVars, frameVars, jobVars>>

\* Lines 958-966: a QWindow becomes the surface, anything else leaves m_window
\* as it is; the write lock is released.  A new window reports its own size.
setSurface_Return ==
    /\ setSurf.pc = "assign"
    /\ IF setSurf.surfaceObject = "window"
       THEN m_window' = TRUE /\ surfaceSize' \in SurfaceSizes
       ELSE UNCHANGED <<m_window, surfaceSize>>
    /\ setSurf' = [setSurf EXCEPT !.pc = "idle"]
    /\ UNCHANGED <<deviceVars, timingVars, grab, stats, swapVars, accVars, ringVars, sceneVars,
                   frameVars, jobVars>>

----------------------------------------------------------------------------
(* statistics *)

\* Line 998: statistics() takes m_frameTimingsLock for reading.
statistics_Lock ==
    /\ ~stats.locked
    /\ stats' = [locked |-> TRUE, raced |-> {}]
    /\ UNCHANGED <<deviceVars, timingVars, grab, surfVars, swapVars, accVars, ringVars,
                   sceneVars, frameVars, jobVars>>

\* Lines 1000-1005: the four fields are read and the lock is released.
statistics_Return ==
    /\ stats.locked
    /\ stats' = [stats EXCEPT !.locked = FALSE]
    /\ UNCHANGED <<deviceVars, timingVars, grab, surfVars, swapVars, accVars, ringVars,
                   sceneVars, frameVars, jobVars>>

----------------------------------------------------------------------------
(* Environment *)

\* The GPU starts the oldest submission once the semaphore it waits on has a
\* signal: the recorded vkCmdResetQueryPool (line 659) makes the slot's query
\* pair unavailable.  Until then the pair holds what its last use left in it.
GpuStart ==
    /\ gpuQueue # <<>>
    /\ LET h == Head(gpuQueue) IN
          /\ ~h.started
          /\ h.waitSem => presentationFinished
          /\ presentationFinished' = IF h.waitSem THEN FALSE ELSE presentationFinished
          /\ queries' = [queries EXCEPT ![h.slot] = [state |-> "reset", age |-> "none"]]
          /\ gpuQueue' = [gpuQueue EXCEPT ![1].started = TRUE]
    /\ UNCHANGED <<deviceVars, timingVars, grab, stats, surfVars, swapVars, accVars, sceneVars, frameVars,
                   m_frameIndex, fences, jobVars>>

\* The GPU finishes the oldest submission: its timestamps (lines 660, 715)
\* become available and its fence (line 600) is signaled.
GpuComplete ==
    /\ gpuQueue # <<>>
    /\ LET h == Head(gpuQueue) IN
          /\ h.started
          /\ fences' = [fences EXCEPT ![h.slot] = TRUE]
          /\ queries' = [queries EXCEPT ![h.slot] = [state |-> "available", age |-> h.age]]
          /\ gpuQueue' = Tail(gpuQueue)
    /\ UNCHANGED <<deviceVars, timingVars, grab, stats, surfVars, swapVars, accVars, sceneVars, frameVars,
                   m_frameIndex, presentationFinished, jobVars>>

\* The window is resized, minimized or restored.
WindowResized ==
    /\ surfaceSize' \in SurfaceSizes \ {surfaceSize}
    /\ UNCHANGED <<deviceVars, timingVars, grab, stats, m_window, setSurf, swapVars, accVars, ringVars,
                   sceneVars, frameVars, jobVars>>

----------------------------------------------------------------------------
(* Specifications *)

\* The frame resource ring under failing fence waits, submissions and image
\* acquisitions, for a window that keeps its size.
RingFaults == {"waitFence", "submit", "acquire"}

Next ==
    \/ renderFrame_Begin(RingFaults)
    \/ renderFrame_WaitIdle
    \/ renderFrame_Resize(RingFaults)
    \/ renderFrame_WaitFence(RingFaults)
    \/ renderFrame_Record(RingFaults)
    \/ renderFrame_Measure(RingFaults)
    \/ GpuStart
    \/ GpuComplete

Spec == Init /\ [][Next]_vars

\* The swapchain manager under a window that changes size and failing
\* creation calls.
SurfaceFaults == {"querySize", "createSwapchain", "swapchainImages", "createImage"}

NextSurface ==
    \/ renderFrame_Begin(SurfaceFaults)
    \/ renderFrame_WaitIdle
    \/ renderFrame_Resize(SurfaceFaults)
    \/ renderFrame_WaitFence(SurfaceFaults)
    \/ renderFrame_Record(SurfaceFaults)
    \/ renderFrame_Measure(SurfaceFaults)
    \/ GpuStart
    \/ GpuComplete
    \/ WindowResized

SpecSurface == Init /\ [][NextSurface]_vars

\* Accumulation across frames: job passes that reset the render progress,
\* the TLAS build, and frames without failures.
NextAccum ==
    \/ renderFrame_Begin({})
    \/ renderFrame_WaitIdle
    \/ renderFrame_Resize({})
    \/ renderFrame_WaitFence({})
    \/ renderFrame_Record({})
    \/ renderFrame_Measure({})
    \/ GpuStart
    \/ GpuComplete
    \/ markDirty({"Geometry"})
    \/ jobsToExecute_Begin
    \/ jobsToExecute_Flags
    \/ jobsToExecute_Finish
    \/ jobsToExecute_Return
    \/ ExecuteTLASJob

SpecAccum == Init /\ [][NextAccum]_vars

\* The job graph builder alone, for every DirtySet.
NextJobs ==
    \/ markDirty(DirtyFlags)
    \/ jobsToExecute_Begin
    \/ jobsToExecute_Flags
    \/ jobsToExecute_Finish
    \/ jobsToExecute_Return

\* The renderer of a window of one size with a ring of one slot; the ring plays
\* no part in the job graph.
InitJobs == Init /\ numConcurrentFrames = 1 /\ surfaceSize = <<1, 1>>

SpecJobs == InitJobs /\ [][NextJobs]_vars

\* Image grabs between the steps of frames whose submission or image
\* acquisition may fail, for a scene that job passes make ready.
GrabFaults == {"submit", "acquire"}

NextGrab ==
    \/ renderFrame_Begin(GrabFaults)
    \/ renderFrame_WaitIdle
    \/ renderFrame_Resize(GrabFaults)
    \/ renderFrame_WaitFence(GrabFaults)
    \/ renderFrame_Record(GrabFaults)
    \/ renderFrame_Measure(GrabFaults)
    \/ GpuStart
    \/ GpuComplete
    \/ markDirty({"Geometry"})
    \/ jobsToExecute_Begin
    \/ jobsToExecute_Flags
    \/ jobsToExecute_Finish
    \/ jobsToExecute_Return
    \/ ExecuteTLASJob
    \/ \E type \in GrabTypes : grabImage(type)

InitGrab == Init /\ numConcurrentFrames = 1 /\ surfaceSize \in {<<0, 0>>, <<1, 1>>}

SpecGrab == InitGrab /\ [][NextGrab]_vars

\* Frames whose image acquisition or present may report an out-of-date or a
\* suboptimal swapchain, under a window that may change size.
OutOfDateFaults == {"outOfDate"}

NextOutOfDate ==
    \/ renderFrame_Begin(OutOfDateFaults)
    \/ renderFrame_WaitIdle
    \/ renderFrame_Resize(OutOfDateFaults)
    \/ renderFrame_WaitFence(OutOfDateFaults)
    \/ renderFrame_Record(OutOfDateFaults)
    \/ renderFrame_Measure(OutOfDateFaults)
    \/ GpuStart
    \/ GpuComplete
    \/ WindowResized

SpecOutOfDate == Init /\ [][NextOutOfDate]_vars

\* initialize() with creation calls that may fail, and the frames the timer
\* starts afterwards.
InitConstructed ==
    /\ Constructed
    /\ m_renderFrameTimer = FALSE
    /\ initialized = [result |-> "none", nullHandles |-> {}]

NextInitialize ==
    \/ initialize
    \/ renderFrame_Begin({})
    \/ renderFrame_WaitIdle
    \/ renderFrame_Resize({})
    \/ renderFrame_WaitFence({})
    \/ renderFrame_Record({})
    \/ renderFrame_Measure({})
    \/ GpuStart
    \/ GpuComplete

SpecInitialize == InitConstructed /\ [][NextInitialize]_vars

\* Frames whose CPU and GPU times vary and whose timestamp read may fail.
TimingFaults == {"time", "queryTime"}

NextTimings ==
    \/ renderFrame_Begin(TimingFaults)
    \/ renderFrame_WaitIdle
    \/ renderFrame_Resize(TimingFaults)
    \/ renderFrame_WaitFence(TimingFaults)
    \/ renderFrame_Record(TimingFaults)
    \/ renderFrame_Measure(TimingFaults)
    \/ GpuStart
    \/ GpuComplete

SpecTimings == Init /\ [][NextTimings]_vars

\* setSurface calls on another thread while frames are rendered.
NextSetSurface ==
    \/ renderFrame_Begin({})
    \/ renderFrame_WaitIdle
    \/ renderFrame_Resize({})
    \/ renderFrame_WaitFence({})
    \/ renderFrame_Record({})
    \/ renderFrame_Measure({})
    \/ GpuStart
    \/ GpuComplete
    \/ setSurface_Lock
    \/ setSurface_WaitIdle
    \/ setSurface_Release
    \/ setSurface_Return

SpecSetSurface == Init /\ [][NextSetSurface]_vars

\* statistics() calls on another thread while frames are rendered and job
\* passes are built.
NextStats ==
    \/ renderFrame_Begin({})
    \/ renderFrame_WaitIdle
    \/ renderFrame_Resize({})
    \/ renderFrame_WaitFence({})
    \/ renderFrame_Record({})
    \/ renderFrame_Measure({})
    \/ GpuStart
    \/ GpuComplete
    \/ markDirty({"Geometry"})
    \/ jobsToExecute_Begin
    \/ jobsToExecute_Flags
    \/ jobsToExecute_Finish
    \/ jobsToExecute_Return
    \/ ExecuteTLASJob
    \/ statistics_Lock
    \/ statistics_Return

SpecStats == InitJobs /\ [][NextStats]_vars

----------------------------------------------------------------------------
(* Claims *)

\* C1: renderFrame resets slot i's fence, rewrites its descriptor set and begins
\* recording into its command buffer only after the fence of slot i's most
\* recent submission was observed signaled by the fence wait of the same call:
\* when the frame is past its wait, the slot has no submission in flight.
C1_RingSafety ==
    pc = "record" => rf.cur \notin InFlight

\* C2: the number of frames submitted to the GPU whose completion fence has not
\* signaled is at most N, the ring size.
C2_AtMostNOutstanding == Len(gpuQueue) <= numConcurrentFrames

\* C3: after a failed queue submission the next renderFrame never waits on a
\* fence that was reset and that no submission will signal.
C3_NeverWaitsOnDeadFence ==
    pc = "wait" => (fences[rf.cur] \/ rf.cur \in InFlight)

\* The jobs a returned job list names, as a set.
ReturnedJobs == {jret.jobs[i] : i \in DOMAIN jret.jobs}

\* The dependencies of a job of the returned list.
DepsOf(j) == UNION {jret.deps[i] : i \in {k \in DOMAIN jret.jobs : jret.jobs[k] = j}}

\* The jobs reachable from the set S along at most n dependency edges.
RECURSIVE Reach(_, _)
Reach(S, n) == IF n = 0 THEN S ELSE Reach(S \cup UNION {DepsOf(j) : j \in S}, n - 1)

Acyclic == \A j \in ReturnedJobs : j \notin Reach(DepsOf(j), Len(jret.jobs))

\* C4: for every DirtySet and every renderable set the returned job list is
\* acyclic, and every dependency of a returned job is in the list exactly once.
C4_JobGraphClosed ==
    jpc = "return" =>
        /\ Acyclic
        /\ \A j \in ReturnedJobs : \A d \in DepsOf(j) :
              Cardinality({i \in DOMAIN jret.jobs : jret.jobs[i] = d}) = 1

\* C5: no flag passed to markDirty during a jobsToExecute call is lost: it was
\* acted on by the call or is still set when the call returns.
C5_NoDirtyFlagLost == jpc = "return" => jret.lost \subseteq m_dirtySet

\* C6: once an empty surface size (zero width or zero height) was observed, no
\* frame acquires or presents a swapchain image until a non-empty size was
\* observed and the swapchain recreated, and the assertions of
\* presentSwapchainImage hold.
C6_NoPresentWhileEmpty ==
    /\ emptyObserved => (rf.acquire = "none" /\ ~rf.present)
    /\ rf.present => (m_swapchain /\ isValid(m_swapchainSize))

\* C7: for every ring size N >= 1 the query pair read in the measurement step of
\* a submitted frame was written by the frame submitted immediately before it,
\* never by the frame itself.
C7_GpuTimeOneFrameBehind ==
    (rf.measured /\ rf.submit = "ok" /\ rf.readAge # "none") => rf.readAge = "preceding"

\* C8: previousFrameIndex() is N-1 for index 0 and k-1 for index k > 0, that is
\* (k-1) mod N, and is a slot index of the ring.
C8_PreviousFrameIndex ==
    /\ m_frameIndex = 0 => previousFrameIndex = numConcurrentFrames - 1
    /\ m_frameIndex > 0 => previousFrameIndex = m_frameIndex - 1
    /\ previousFrameIndex = (m_frameIndex - 1) % numConcurrentFrames
    /\ previousFrameIndex \in Slots

\* A frame of a ring of two slots that began at index 0 after the ring wrapped
\* around: its 'previous' slot is slot 1, which an earlier frame submitted.
C8_Witness ==
    /\ pc = "wait" /\ numConcurrentFrames = 2
    /\ m_frameIndex = 0 /\ rf.prev = 1 /\ queries[1].state = "available"

\* C9: in a frame that traces, the slot read as 'previous' accumulation input
\* differs from the 'current' slot written, for every ring size the surface
\* capability query can yield.
C9_PreviousDistinctFromCurrent == rf.trace # "none" => rf.prev # rf.cur

\* C10: the first frame that records a trace after a reset of the render
\* progress reads a 'previous' render target cleared since that reset.
C10_FirstTraceReadsClearedTarget == rf.trace # "firstUncleared"

\* The kinds of the jobs a pass returned.
ReturnedKinds == {jret.jobs[i][1] : i \in DOMAIN jret.jobs}

\* C11: a jobsToExecute pass that found the DirtySet None returns the
\* reclaim-expired-resources job and no TLAS, instance-buffer, emitter,
\* geometry-build, texture-upload or material-update job, whatever the
\* renderable set and whatever earlier passes did.
C11_NoneDirtyOnlyReclaims ==
    (jpc = "return" /\ jret.dirty = {}) =>
        /\ DestroyExpiredResourcesJob \in ReturnedJobs
        /\ ReturnedKinds \cap {"buildSceneTLAS", "updateInstanceBuffer", "updateEmitters",
                               "buildGeometry", "uploadTexture", "updateMaterials"} = {}

\* A pass over a clean DirtySet with a renderable in the scene, after an
\* earlier pass that returned a TLAS job; the emitter job no longer depends on
\* the jobs of that pass.
C11_Witness ==
    /\ jpc = "return" /\ jret.dirty = {} /\ renderables > 0
    /\ tlasJobPending /\ emittersDeps = {}

\* C12: a pass that found Texture in the DirtySet returns exactly one
\* material-update job, and the job's targets are all active materials,
\* whichever materials were marked dirty and whether or not Material is dirty.
C12_TextureDirtyUpdatesAllMaterials ==
    (jpc = "return" /\ "Texture" \in jret.dirty) =>
        /\ Cardinality({i \in DOMAIN jret.jobs : jret.jobs[i] = UpdateMaterialsJob}) = 1
        /\ jret.dirtyMaterialHandles = ActiveMaterials

\* A pass that found Texture without Material in the DirtySet.
C12_Witness ==
    /\ jpc = "return" /\ "Texture" \in jret.dirty /\ "Material" \notin jret.dirty
    /\ UpdateMaterialsJob \in ReturnedJobs

\* C13 as stated: a pass that found Geometry, Transform or Light in the
\* DirtySet and ends with a non-empty renderable set returns a TLAS rebuild job.
C13_TLASOnGeometryTransformLight ==
    (jpc = "return" /\ jret.dirty \cap {"Geometry", "Transform", "Light"} # {}
                    /\ renderables > 0) =>
        BuildSceneTLASJob \in ReturnedJobs

\* C13, amended: a pass that found Geometry, Transform or Entity in the
\* DirtySet and ends with a non-empty renderable set returns exactly one TLAS
\* rebuild job; a pass that found none of the three returns none, so Light
\* alone rebuilds nothing.
C13_TLASOnGeometryTransformEntity ==
    (jpc = "return" /\ renderables > 0) =>
        Cardinality({i \in DOMAIN jret.jobs : jret.jobs[i] = BuildSceneTLASJob})
          = IF jret.dirty \cap {"Geometry", "Transform", "Entity"} # {} THEN 1 ELSE 0

\* A pass that found only Entity dirty and returned a TLAS job.
C13_Witness ==
    /\ jpc = "return" /\ jret.dirty = {"Entity"} /\ renderables > 0
    /\ BuildSceneTLASJob \in ReturnedJobs

\* C14: grabImage returns an empty result whenever the requested image was
\* never produced: for the accumulation target, when no submitted frame has
\* traced into the current render targets; for the last presented image, when
\* no submitted display pass has drawn into an image of the current swapchain.
C14_GrabUnproducedIsEmpty ==
    (grab.type # "none" /\ ~grab.produced) => grab.empty

\* Where a step stands among the steps of the frame, 0 if the frame did not
\* take it.
StepAt(step) ==
    IF \E i \in DOMAIN rf.steps : rf.steps[i] = step
    THEN CHOOSE i \in DOMAIN rf.steps : rf.steps[i] = step
    ELSE 0

\* Both steps taken implies the first came first.
Before(a, b) == (StepAt(a) # 0 /\ StepAt(b) # 0) => StepAt(a) < StepAt(b)

\* No step is taken twice in a frame.
StepsOnce == \A i, j \in DOMAIN rf.steps : rf.steps[i] = rf.steps[j] => i = j

\* C15 as stated: the steps of a frame come in the order AcquireSlot,
\* ReclaimExpired, CheckReady, RefreshBindings, RecordCommands, Submit,
\* AcquirePresentImage, Present, AdvanceRing, MeasureTiming.
C15_StepOrderAsStated ==
    /\ StepsOnce
    /\ Before("AcquireSlot", "ReclaimExpired") /\ Before("ReclaimExpired", "CheckReady")
    /\ Before("CheckReady", "RefreshBindings") /\ Before("RefreshBindings", "BeginRecording")
    /\ Before("BeginRecording", "EndRecording") /\ Before("EndRecording", "Submit")
    /\ Before("Submit", "AcquirePresentImage") /\ Before("AcquirePresentImage", "Present")
    /\ Before("Present", "AdvanceRing") /\ Before("AdvanceRing", "MeasureTiming")

\* C15, amended: the steps of a frame come in the order AcquireSlot,
\* ReclaimExpired, CheckReady, RefreshBindings, begin of recording,
\* AcquirePresentImage, end of recording, Submit, AdvanceRing, Present,
\* MeasureTiming: the image is acquired while recording, before Submit, and
\* the ring index is rotated by a successful Submit, before Present.
C15_StepOrder ==
    /\ StepsOnce
    /\ Before("AcquireSlot", "ReclaimExpired") /\ Before("ReclaimExpired", "CheckReady")
    /\ Before("CheckReady", "RefreshBindings") /\ Before("RefreshBindings", "BeginRecording")
    /\ Before("CheckReady", "BeginRecording")
    /\ Before("BeginRecording", "AcquirePresentImage")
    /\ Before("AcquirePresentImage", "EndRecording")
    /\ Before("BeginRecording", "EndRecording") /\ Before("EndRecording", "Submit")
    /\ Before("Submit", "AdvanceRing") /\ Before("AdvanceRing", "Present")
    /\ Before("Submit", "MeasureTiming") /\ Before("Present", "MeasureTiming")
    /\ Before("AdvanceRing", "MeasureTiming")
    /\ (StepAt("Present") # 0 => StepAt("AdvanceRing") # 0 /\ StepAt("AcquirePresentImage") # 0)

\* A finished frame of a ready scene that took every step.
C15_Witness ==
    /\ rf.measured /\ rf.ready /\ rf.present
    /\ Len(rf.steps) = 11

\* C16: a renderFrame call that acquired a ring slot has rotated the ring index
\* by exactly one modulo N by its end, whether or not it presented, and the
\* index is a slot of the ring.
C16_RingRotatesEveryFrame ==
    /\ m_frameIndex \in Slots
    /\ rf.measured => m_frameIndex = (rf.cur + 1) % numConcurrentFrames

\* C17: a frame of a scene that is not ready records no trace and refreshes no
\* bindings, but its command buffer is begun, ended and submitted and the frame
\* goes on to its measurement; a frame that records a trace has refreshed the
\* bindings of its slot before it began recording.
C17_NotReadySkipsTraceOnly ==
    rf.submit # "none" =>
        /\ StepAt("BeginRecording") # 0 /\ StepAt("EndRecording") # 0 /\ StepAt("Submit") # 0
        /\ pc \in {"measure", "idle"}
        /\ ~rf.ready => (rf.trace = "none" /\ StepAt("RefreshBindings") = 0)
        /\ rf.trace # "none" => (/\ rf.ready
                                 /\ StepAt("RefreshBindings") # 0
                                 /\ StepAt("RefreshBindings") < StepAt("BeginRecording"))

\* A frame of a scene that is not ready has run to its end, in a renderer that
\* has a swapchain.
C17_Witness ==
    /\ rf.measured /\ ~rf.ready /\ rf.submit = "ok" /\ rf.present
    /\ StepAt("RefreshBindings") = 0 /\ pc = "idle"

CommandAt(c) ==
    IF \E i \in DOMAIN rf.commands : rf.commands[i] = c
    THEN CHOOSE i \in DOMAIN rf.commands : rf.commands[i] = c
    ELSE 0

\* Both commands recorded implies the first was recorded first.
RecordedBefore(a, b) == (CommandAt(a) # 0 /\ CommandAt(b) # 0) => CommandAt(a) < CommandAt(b)

\* C19: the commands of a frame are, in this order, timestamp-begin, layout
\* initialization (only in the first frame recorded on new render targets),
\* clear of 'previous' (only if the clear flag was set), trace (only if
\* ready), 'current' to shader-readable, display pass (only if an image was
\* acquired), 'current' back to writable, timestamp-end; every begun recording
\* is ended.
C19_CommandOrder ==
    rf.commands # <<>> =>
        /\ \A i, j \in DOMAIN rf.commands : rf.commands[i] = rf.commands[j] => i = j
        /\ rf.commands[1] = "begin" /\ rf.commands[Len(rf.commands)] = "end"
        /\ CommandAt("timestampBegin") # 0 /\ CommandAt("timestampEnd") # 0
        /\ CommandAt("currentToShaderRead") # 0 /\ CommandAt("currentToWritable") # 0
        /\ RecordedBefore("timestampBegin", "initLayouts")
        /\ RecordedBefore("timestampBegin", "clearPrevious")
        /\ RecordedBefore("timestampBegin", "traceRays")
        /\ RecordedBefore("timestampBegin", "currentToShaderRead")
        /\ RecordedBefore("initLayouts", "clearPrevious")
        /\ RecordedBefore("initLayouts", "traceRays")
        /\ RecordedBefore("initLayouts", "currentToShaderRead")
        /\ RecordedBefore("clearPrevious", "traceRays")
        /\ RecordedBefore("clearPrevious", "currentToShaderRead")
        /\ RecordedBefore("traceRays", "currentToShaderRead")
        /\ RecordedBefore("currentToShaderRead", "displayPass")
        /\ RecordedBefore("currentToShaderRead", "currentToWritable")
        /\ RecordedBefore("displayPass", "currentToWritable")
        /\ RecordedBefore("currentToWritable", "timestampEnd")
        /\ (CommandAt("initLayouts") # 0 <=> ~rf.buffersReady)
        /\ (CommandAt("clearPrevious") # 0 <=> rf.clearFlag)
        /\ (CommandAt("traceRays") # 0 <=> rf.ready)
        /\ (CommandAt("displayPass") # 0 <=> rf.acquire \in {"ok", "suboptimal"})

\* A frame that recorded a clear, a trace and a display pass on render targets
\* whose layouts an earlier frame had initialized.
C19_Witness ==
    /\ rf.buffersReady /\ rf.clearFlag /\ rf.ready /\ rf.acquire = "ok"
    /\ Len(rf.commands) = 10

\* C20: statistics() reads each field of its snapshot under a lock that keeps
\* out every writer of the field: no member behind the snapshot is written
\* while a statistics() call holds the lock.
C20_StatisticsExcludesWriters == stats.raced = {}

\* C21: setSurface never overlaps a renderFrame that uses the surface: while
\* setSurface holds the write lock no renderFrame is between its first and its
\* last step; the device was idle when the swapchain and its attachments were
\* destroyed; and a renderFrame that runs with no surface returns at once: it
\* takes no step, submits and presents nothing, and leaves the fences, the
\* queue and the ring index as they were.
C21_SetSurfaceExcludesRenderFrame ==
    /\ [](setSurf.pc # "idle" => pc = "idle")
    /\ [](~setSurf.busy)
    /\ [](~m_window => pc = "idle")
    /\ [][rf'.noSurface =>
            /\ rf'.steps = <<>> /\ rf'.submit = "none" /\ ~rf'.present /\ pc' = "idle"
            /\ (~m_window => (ringVars' = ringVars /\ accVars' = accVars))]_vars

\* A renderFrame call bailed out after setSurface released the surface of a
\* renderer that had submitted frames on a swapchain.
C21_Witness ==
    /\ rf.noSurface /\ ~m_window /\ ~m_swapchain /\ setSurf.pc = "idle"
    /\ m_frameIndex = 1

\* C22: if a creation call of initialization returned a null handle,
\* initialize() returned false and the frame timer was not started, so no
\* renderFrame runs on partially created resources.
C22_NullHandleAbortsInitialize ==
    initialized.nullHandles # {} =>
        /\ initialized.result = "false"
        /\ ~m_renderFrameTimer
        /\ pc = "idle" /\ rf.steps = <<>>

\* C23: the timing update of a frame always folds the CPU time into the CPU
\* average, and folds the GPU time into the GPU average exactly when the GPU
\* value is non-negative, zero included; a negative value leaves the GPU
\* average as it was.
C23_GpuTimeFoldedWhenNonNegative ==
    rf.measured =>
        /\ m_hostTimeAverage = add(rf.hostBefore, rf.cpuFrameTime)
        /\ m_deviceTimeAverage = IF rf.gpuFrameTime >= 0
                                 THEN add(rf.deviceBefore, rf.gpuFrameTime)
                                 ELSE rf.deviceBefore

\* C24: a frame whose wait on the fence of its slot failed or timed out is
\* abandoned: it records nothing into the slot's command buffer, submits and
\* presents nothing, and leaves the ring index on the slot for a later frame.
C24_FailedFenceWaitAbandonsFrame ==
    ~rf.waitOk =>
        /\ rf.commands = <<>> /\ rf.submit = "none" /\ ~rf.present
        /\ m_frameIndex = rf.cur

\* The update jobs that wait for the world transforms.
TransformDependents == {UpdateRenderParametersJob, UpdateInstanceBufferJob, UpdateEmittersJob}

\* C25 as stated: a pass that found Transform in the DirtySet returns the
\* transform-update job as the first job of its list, and each render-parameter,
\* instance-buffer and emitter job it returns depends on that job.
C25_TransformJobFirst ==
    (jpc = "return" /\ "Transform" \in jret.dirty) =>
        /\ jret.jobs[1] = UpdateWorldTransformJob
        /\ \A j \in TransformDependents \cap ReturnedJobs : UpdateWorldTransformJob \in DepsOf(j)

\* C25, amended: a pass that found Transform in the DirtySet returns the
\* transform-update job exactly once, as the second job of its list, behind
\* the reclaim-expired-resources job and ahead of every other job; the
\* render-parameter job is returned, and each render-parameter, instance-buffer
\* and emitter job the pass returns depends on the transform-update job.
C25_TransformJobAheadOfUpdates ==
    (jpc = "return" /\ "Transform" \in jret.dirty) =>
        /\ jret.jobs[1] = DestroyExpiredResourcesJob
        /\ jret.jobs[2] = UpdateWorldTransformJob
        /\ Cardinality({i \in DOMAIN jret.jobs : jret.jobs[i] = UpdateWorldTransformJob}) = 1
        /\ UpdateRenderParametersJob \in ReturnedJobs
        /\ \A j \in TransformDependents \cap ReturnedJobs : UpdateWorldTransformJob \in DepsOf(j)

\* A pass that found Transform dirty in a scene with a renderable and returned
\* the three jobs that wait for the transforms.
C25_Witness ==
    /\ jpc = "return" /\ "Transform" \in jret.dirty /\ renderables > 0
    /\ TransformDependents \subseteq ReturnedJobs

\* The jobs of a kind that a pass returned.
ReturnedOfKind(kind) == {j \in ReturnedJobs : j[1] = kind}

\* C26: in every pass the material-update job depends on every texture-upload
\* job of the pass; with a non-empty renderable set the instance-buffer job
\* (if returned) depends on every geometry-build and material-update job of
\* the pass, the emitter job (if returned) on those and on every
\* texture-upload job, and the TLAS job (if returned) on every geometry-build
\* job; with an empty renderable set the earlier update jobs are returned but
\* no TLAS, instance-buffer or emitter job.
C26_PassDependencies ==
    jpc = "return" =>
        LET G == ReturnedOfKind("buildGeometry")
            T == ReturnedOfKind("uploadTexture")
            M == ReturnedOfKind("updateMaterials")
        IN
        /\ \A j \in M : T \subseteq DepsOf(j)
        /\ UpdateInstanceBufferJob \in ReturnedJobs =>
              (G \cup M) \subseteq DepsOf(UpdateInstanceBufferJob)
        /\ UpdateEmittersJob \in ReturnedJobs =>
              (G \cup M \cup T) \subseteq DepsOf(UpdateEmittersJob)
        /\ BuildSceneTLASJob \in ReturnedJobs => G \subseteq DepsOf(BuildSceneTLASJob)
        /\ ReturnedJobs \cap {BuildSceneTLASJob, UpdateInstanceBufferJob, UpdateEmittersJob} # {}
              => renderables > 0
        /\ DestroyExpiredResourcesJob \in ReturnedJobs
        /\ "Transform" \in jret.dirty <=> UpdateWorldTransformJob \in ReturnedJobs
        /\ jret.dirty \cap {"Material", "Texture"} # {} <=> M # {}
        /\ jret.dirty \cap {"Transform", "Camera"} # {}
              <=> UpdateRenderParametersJob \in ReturnedJobs
        /\ G # {} => "Geometry" \in jret.dirty
        /\ T # {} => "Texture" \in jret.dirty

\* A pass with a renderable that returned a geometry, a texture and the
\* material job together with the TLAS, instance-buffer and emitter jobs.
C26_Witness ==
    /\ jpc = "return" /\ renderables > 0
    /\ ReturnedOfKind("buildGeometry") # {} /\ ReturnedOfKind("uploadTexture") # {}
    /\ {UpdateMaterialsJob, BuildSceneTLASJob, UpdateInstanceBufferJob, UpdateEmittersJob}
          \subseteq ReturnedJobs

\* A pass that left the renderable set empty and returned its geometry,
\* texture and material jobs without a TLAS, instance-buffer or emitter job.
C26_WitnessEmpty ==
    /\ jpc = "return" /\ renderables = 0
    /\ ReturnedOfKind("buildGeometry") # {} /\ ReturnedOfKind("uploadTexture") # {}
    /\ UpdateMaterialsJob \in ReturnedJobs

\* The frame has finished its resize path with every creation call succeeding.
ResizeSucceeded == pc = "wait" /\ rf.resized = "ok"

\* What C27 says of the order: the device was idle when the release began,
\* release and re-creation are over before the frame waits on its fence or
\* records a command, and after a successful resize the tracked swapchain size
\* and the render-target size equal the observed size.
ResizePrecedesFrame ==
    /\ [](~rf.busyAtRelease)
    /\ [](pc \in {"resize", "recreate"} => (rf.steps = <<>> /\ rf.commands = <<>>))
    /\ [](rf.resizeSteps # <<>> => rf.resizeSteps[1] = "waitIdle")
    /\ [][rf'.resizeSteps # rf.resizeSteps => pc \in {"idle", "resize", "recreate"}]_vars
    /\ [](ResizeSucceeded =>
            (m_swapchainSize = rf.observed /\ m_renderBufferSize = rf.observed))

\* C27 as stated: the order above, and after every successful resize the
\* render progress is reset.
C27_ResizeResetsProgress ==
    /\ ResizePrecedesFrame
    /\ [](ResizeSucceeded => (m_clearPreviousRenderBuffer /\ historyInvalid /\ cleared = {}))

\* C27, amended: the order above, and after a successful resize the render
\* progress is reset exactly when the render targets were created again,
\* which happens when their size differed from the new swapchain size; a
\* swapchain created again at the size of the existing render targets keeps
\* them and the accumulated progress.
C27_ResizeResetsProgressOnNewTargets ==
    /\ ResizePrecedesFrame
    /\ [](ResizeSucceeded =>
            \/ /\ "createRenderBufferResources" \in {rf.resizeSteps[i] : i \in DOMAIN rf.resizeSteps}
               /\ m_clearPreviousRenderBuffer /\ historyInvalid /\ cleared = {}
               /\ ~m_renderBuffersReady /\ m_lastRenderBuffer = NoSlot
            \/ /\ "createRenderBufferResources" \notin {rf.resizeSteps[i] : i \in DOMAIN rf.resizeSteps}
               /\ "resetRenderProgress" \notin {rf.resizeSteps[i] : i \in DOMAIN rf.resizeSteps})
    /\ [][(pc = "recreate" /\ ResizeSucceeded' /\ m_renderBufferSize' = m_renderBufferSize
            /\ m_renderBufferSize # InvalidSize)
           => UNCHANGED accVars]_vars

\* A frame has created the swapchain and the render targets again at a new
\* size after an earlier frame had been submitted at the old size.
C27_Witness ==
    /\ ResizeSucceeded /\ rf.observed = <<2, 1>>
    /\ Len(rf.resizeSteps) = 7
    /\ \E s \in Slots : queries[s].state = "available"

\* C28: after a frame whose submission failed the flags claim no work the GPU
\* never executed: render targets that were not initialized before the frame
\* are not marked initialized, a clear that was pending before the frame is
\* still pending, and the images grabImage would copy were written by a
\* submitted frame.
C28_DroppedFrameLeavesStateConsistent ==
    rf.submit = "failed" =>
        /\ m_renderBuffersReady => rf.buffersReady
        /\ rf.clearFlag => m_clearPreviousRenderBuffer
        /\ m_lastRenderBuffer # NoSlot => traceSubmitted
        /\ m_lastSwapchainImage => displaySubmitted

\* C29: the measurement step of every frame, the first frame after
\* initialization included, waits only on a timestamp query pair that a
\* submitted frame has written or will write: the pair of the 'previous' slot
\* is available, or a submission of that slot is in the queue.
C29_MeasureWaitsOnWrittenQuery ==
    pc = "measure" => (queries[rf.prev].state = "available" \/ rf.prev \in InFlight)

\* C30: a present is issued in a frame only if an image was acquired in that
\* frame and a display pass was recorded into it, and the present names the
\* index of that image; a frame whose acquisition failed presents nothing.
C30_PresentsOnlyAcquiredImage ==
    /\ rf.present =>
          /\ rf.acquiredImage # NoImage
          /\ CommandAt("displayPass") # 0
          /\ rf.presentedImage = rf.acquiredImage
    /\ rf.acquire = "failed" => (~rf.present /\ rf.presentedImage = NoImage)

\* The submissions in the queue that wait on m_presentationFinishedSemaphore
\* and have not started.
WaitingOnPresentation ==
    {i \in DOMAIN gpuQueue : gpuQueue[i].waitSem /\ ~gpuQueue[i].started}

\* C31: a submission waits on the presentation-finished semaphore only in a
\* frame whose image acquire succeeded, and every signal of the semaphore is
\* consumed by exactly one submission before the next acquire: the submissions
\* that wait and have not started are as many as the signals that are pending,
\* so every submitted frame can start.
C31_SemaphoreSignalsMatchWaits ==
    /\ (rf.submit = "ok" /\ rf.acquire \notin {"ok", "suboptimal"} /\ pc = "measure")
          => \A i \in DOMAIN gpuQueue : gpuQueue[i].slot = rf.cur => ~gpuQueue[i].waitSem
    /\ Cardinality(WaitingOnPresentation) = IF presentationFinished THEN 1 ELSE 0

\* The commands that name a render target: the layout initialization, the
\* clear of 'previous', the trace and the two barriers on 'current'.
RenderTargetCommands ==
    {"initLayouts", "clearPrevious", "traceRays", "currentToShaderRead", "currentToWritable"}

\* C32: a trace, clear or barrier on a render target is recorded only while
\* the render targets exist with a valid non-empty size: not before the first
\* successful creation, not while the window never had a non-empty size, not
\* after a failed creation.
C32_RenderTargetCommandsHaveTargets ==
    (\E i \in DOMAIN rf.commands : rf.commands[i] \in RenderTargetCommands)
        => ~isEmpty(m_renderBufferSize)

\* C33: a valid tracked swapchain size implies a live swapchain; a non-null
\* 'last swapchain image' names an attachment of the live swapchain and a
\* non-null 'last render buffer' names a render target that exists, neither
\* one released; and every call of presentSwapchainImage finds a swapchain and
\* a valid size.
C33_SizeAndLastImagesAreLive ==
    /\ isValid(m_swapchainSize) => m_swapchain
    /\ m_lastSwapchainImage => (m_swapchain /\ isValid(m_swapchainSize))
    /\ m_lastRenderBuffer # NoSlot => isValid(m_renderBufferSize)
    /\ (pc = "measure" /\ rf.present) => (m_swapchain /\ isValid(m_swapchainSize))

\* C34: the device-idle wait and the swapchain teardown of the resize path run
\* only in frames whose reported surface size differs from the size reported
\* in the frame before: a frame that ran the resize path for a reported size is
\* never followed by a frame that runs it again for that same size.
C34_ResizeOncePerReportedSize ==
    [][(pc = "idle" /\ pc' = "resize")
          => ~(rf.resizeSteps # <<>> /\ rf.observed = rf'.observed)]_vars

====
